---------------------------- MODULE Spec2Model ----------------------------
(***************************************************************************)
(* A model of the README generator: ProjectAnalyzer (directory walk, file  *)
(* classification, dependency manifests, entry points), the section        *)
(* renderers, and the generate_readme orchestrator.                        *)
(*                                                                         *)
(* Text is modelled as TLA+ strings; a document is the sequence of its     *)
(* lines.  A project directory is the sequence `listing` of its file       *)
(* paths in the order the file system enumerates them; a path is the       *)
(* sequence of its components, the last one being the file name.           *)
(***************************************************************************)
EXTENDS Integers, Sequences, FiniteSets, TLC

VARIABLES
    listing,          \* files under the project root, in enumeration order
    manifest,         \* contents of the dependency manifests
    output,           \* contents of the output file (meaningful when it exists)
    clock,            \* seconds shown by datetime.now()
    pc,               \* position in the analysis pipeline
    file_structure,   \* analyzer.get_file_structure()
    dependencies,     \* analyzer.get_dependencies()
    main_files,       \* analyzer.get_main_files()
    readme_content,   \* the text assembled (and possibly enhanced)
    ops,              \* operations performed by the last call, in order
    args,             \* arguments and environment of the last generate_readme call
    result,           \* what the last generate_readme call returned
    calls             \* number of generate_readme calls made

vars == <<listing, manifest, output, clock, pc, file_structure, dependencies,
          main_files, readme_content, ops, args, result, calls>>

-----------------------------------------------------------------------------
(* Bounds of the model *)

MaxFiles == 2      \* files in a drawn directory tree
MaxList == 15      \* longest drawn category / dependency list
MaxEntries == 2    \* entry-point candidates present in a drawn root
MaxCalls == 2      \* generate_readme calls in one behaviour
MaxLen == 4        \* characters in a drawn manifest entry

-----------------------------------------------------------------------------
(* Strings *)

\* The printable ASCII characters in code-point order (without the double quote,
\* the backslash and the backquote, which no modelled name holds)
Ascii == " !#$%&'()*+,-./0123456789:;<=>?@ABCDEFGHIJKLMNOPQRSTUVWXYZ[]^_abcdefghijklmnopqrstuvwxyz{|}~"

Char(s, i) == SubSeq(s, i, i)

OrdTable ==
    [c \in {Char(Ascii, i) : i \in 1..Len(Ascii)} |->
        CHOOSE i \in 1..Len(Ascii) : Char(Ascii, i) = c]

\* ord(c), up to the three characters left out
Ord(c) == OrdTable[c]

\* str.endswith(suffix)
EndsWith(s, suffix) ==
    /\ Len(suffix) <= Len(s)
    /\ SubSeq(s, Len(s) - Len(suffix) + 1, Len(s)) = suffix

\* str.endswith((s1, s2, ...))
EndsWithAny(s, suffixes) == \E suffix \in suffixes : EndsWith(s, suffix)

\* str.startswith(prefix)
StartsWith(s, prefix) ==
    /\ Len(prefix) <= Len(s)
    /\ SubSeq(s, 1, Len(prefix)) = prefix

\* `pattern in s` for strings
Contains(s, pattern) ==
    \E i \in 1..(Len(s) - Len(pattern) + 1) :
        SubSeq(s, i, i + Len(pattern) - 1) = pattern

\* s1 < s2 for strings: lexicographic by code point
RECURSIVE StrLess(_, _)
StrLess(s1, s2) ==
    IF s2 = "" THEN FALSE
    ELSE IF s1 = "" THEN TRUE
    ELSE IF Char(s1, 1) = Char(s2, 1)
         THEN StrLess(SubSeq(s1, 2, Len(s1)), SubSeq(s2, 2, Len(s2)))
         ELSE Ord(Char(s1, 1)) < Ord(Char(s2, 1))

\* str(n) for a non-negative integer
RECURSIVE Str(_)
Str(n) ==
    IF n < 10 THEN Char("0123456789", n + 1)
    ELSE Str(n \div 10) \o Char("0123456789", (n % 10) + 1)

\* sep.join(parts)
RECURSIVE Join(_, _)
Join(parts, sep) ==
    IF parts = <<>> THEN ""
    ELSE IF Len(parts) = 1 THEN parts[1]
    ELSE parts[1] \o sep \o Join(Tail(parts), sep)

\* sorted(strings)
RECURSIVE Insert(_, _)
Insert(s, sorted) ==
    IF sorted = <<>> THEN <<s>>
    ELSE IF StrLess(s, sorted[1]) THEN <<s>> \o sorted
    ELSE <<sorted[1]>> \o Insert(s, Tail(sorted))

RECURSIVE Sorted(_)
Sorted(strings) ==
    IF strings = <<>> THEN <<>>
    ELSE Insert(strings[Len(strings)], Sorted(SubSeq(strings, 1, Len(strings) - 1)))

\* seq[:n]
Take(seq, n) == SubSeq(seq, 1, IF Len(seq) < n THEN Len(seq) ELSE n)

Range(seq) == {seq[i] : i \in 1..Len(seq)}

-----------------------------------------------------------------------------
(* ProjectAnalyzer *)

ignore_patterns ==
    {".git", "__pycache__", ".pytest_cache", ".venv", "venv", "node_modules",
     ".DS_Store", "*.pyc", "*.pyo", "*.pyd", ".coverage", ".tox",
     ".mypy_cache", ".ruff_cache"}

Categories ==
    <<"python_files", "javascript_files", "html_files", "css_files",
      "config_files", "documentation", "other_files">>

\* _categorize_file without its html rule
_categorize_file_no_html(file) ==
    IF EndsWith(file, ".py") THEN "python_files"
    ELSE IF EndsWithAny(file, {".js", ".ts", ".jsx", ".tsx"}) THEN "javascript_files"
    ELSE IF EndsWithAny(file, {".css", ".scss", ".sass"}) THEN "css_files"
    ELSE IF EndsWithAny(file, {".json", ".yaml", ".yml", ".toml", ".ini", ".cfg"})
         THEN "config_files"
    ELSE IF EndsWithAny(file, {".md", ".txt", ".rst"}) THEN "documentation"
    ELSE "other_files"

_categorize_file(file) ==
    IF EndsWith(file, ".py") THEN "python_files"
    ELSE IF EndsWithAny(file, {".js", ".ts", ".jsx", ".tsx"}) THEN "javascript_files"
    ELSE IF EndsWithAny(file, {".html", ".htm"}) THEN "html_files"
    ELSE IF EndsWithAny(file, {".css", ".scss", ".sass"}) THEN "css_files"
    ELSE IF EndsWithAny(file, {".json", ".yaml", ".yml", ".toml", ".ini", ".cfg"})
         THEN "config_files"
    ELSE IF EndsWithAny(file, {".md", ".txt", ".rst"}) THEN "documentation"
    ELSE "other_files"

\* The name of the file a path leads to, and str(relative_path)
FileName(path) == path[Len(path)]
PathStr(path) == Join(path, "/")

\* Is `path` a file directly inside directory `dir` / somewhere below it
IsFileIn(path, dir) == Len(path) = Len(dir) + 1 /\ SubSeq(path, 1, Len(dir)) = dir
IsBelow(path, dir) == Len(path) > Len(dir) + 1 /\ SubSeq(path, 1, Len(dir)) = dir

\* os.walk's `files` for directory dir, in enumeration order
FilesIn(l, dir) == SelectSeq(l, LAMBDA path : IsFileIn(path, dir))

\* os.walk's `dirs` for directory dir, in enumeration order
RECURSIVE DirsIn(_, _)
DirsIn(l, dir) ==
    IF l = <<>> THEN <<>>
    ELSE LET rest == DirsIn(Tail(l), dir)
         IN  IF IsBelow(l[1], dir)
             THEN LET d == l[1][Len(dir) + 1]
                  IN  <<d>> \o SelectSeq(rest, LAMBDA e : e # d)
             ELSE rest

\* The walk without line 76
NoPruning(dirs) == dirs

\* line 76: dirs[:] = [d for d in dirs if d not in self.ignore_patterns]
PrunedDirs(dirs) == SelectSeq(dirs, LAMBDA d : d \notin ignore_patterns)

\* line 79: any(pattern in file for pattern in self.ignore_patterns)
IsIgnoredFile(file) == \E pattern \in ignore_patterns : Contains(file, pattern)

\* The paths the loop of get_file_structure reaches line 82 with, in order
RECURSIVE Visit(_, _)
RECURSIVE VisitDirs(_, _, _)
Visit(l, dir) ==
    SelectSeq(FilesIn(l, dir), LAMBDA path : ~IsIgnoredFile(FileName(path)))
        \o VisitDirs(l, dir, PrunedDirs(DirsIn(l, dir)))
VisitDirs(l, dir, dirs) ==
    IF dirs = <<>> THEN <<>>
    ELSE Visit(l, Append(dir, dirs[1])) \o VisitDirs(l, dir, Tail(dirs))

RECURSIVE PathStrs(_)
PathStrs(paths) ==
    IF paths = <<>> THEN <<>>
    ELSE <<PathStr(paths[1])>> \o PathStrs(Tail(paths))

get_file_structure(l) ==
    LET visited == Visit(l, <<>>)
    IN  [category \in Range(Categories) |->
            PathStrs(SelectSeq(visited,
                               LAMBDA path : _categorize_file(FileName(path)) = category))]

\* (self.project_path / name).exists(): a file or a directory of that name
Exists(l, name) == \E i \in 1..Len(l) : l[i][1] = name
IsDirectory(l, name) == \E i \in 1..Len(l) : l[i][1] = name /\ Len(l[i]) > 1

\* str.strip()
WhiteSpace == {" ", "\t", "\n", "\r"}

RECURSIVE LStrip(_)
LStrip(s) ==
    IF s # "" /\ Char(s, 1) \in WhiteSpace THEN LStrip(SubSeq(s, 2, Len(s))) ELSE s

RECURSIVE RStrip(_)
RStrip(s) ==
    IF s # "" /\ Char(s, Len(s)) \in WhiteSpace
    THEN RStrip(SubSeq(s, 1, Len(s) - 1)) ELSE s

Strip(s) == LStrip(RStrip(s))

\* re.split(r"[<>=!~]", s)[0]
RECURSIVE SplitHead(_)
SplitHead(s) ==
    IF s = "" \/ Char(s, 1) \in {"<", ">", "=", "!", "~"} THEN ""
    ELSE Char(s, 1) \o SplitHead(SubSeq(s, 2, Len(s)))

\* The package name without the split on the operator characters
PackageNameUnsplit(entry) == Strip(entry)

\* lines 131 and 156: the package name of a requirement
PackageName(entry) == Strip(SplitHead(entry))

\* lines 127-132: the loop over the lines of requirements.txt
RECURSIVE RequirementLines(_)
RequirementLines(lines) ==
    IF lines = <<>> THEN <<>>
    ELSE LET line == Strip(lines[1])
         IN  (IF line # "" /\ ~StartsWith(line, "#")
              THEN <<PackageName(line)>> ELSE <<>>)
             \o RequirementLines(Tail(lines))

\* A manifest that is a directory, unreadable or malformed raises inside the
\* parser's try block, and the parser returns []
_parse_requirements_txt(l, m) ==
    IF IsDirectory(l, "requirements.txt") \/ ~m.requirements.readable THEN <<>>
    ELSE RequirementLines(m.requirements.lines)

RECURSIVE PackageNames(_)
PackageNames(entries) ==
    IF entries = <<>> THEN <<>>
    ELSE <<PackageName(entries[1])>> \o PackageNames(Tail(entries))

_parse_pyproject_toml(l, m) ==
    IF IsDirectory(l, "pyproject.toml") \/ ~m.pyproject.valid THEN <<>>
    ELSE IF m.pyproject.has_project /\ m.pyproject.has_dependencies
         THEN PackageNames(m.pyproject.dependencies)
         ELSE <<>>

_parse_package_json(l, m) ==
    IF IsDirectory(l, "package.json") \/ ~m.package.valid THEN <<>>
    ELSE (IF m.package.has_dependencies THEN m.package.dependencies ELSE <<>>)
         \o (IF m.package.has_dev THEN m.package.devDependencies ELSE <<>>)

requirements_files == <<"requirements.txt", "pyproject.toml", "setup.py", "Pipfile">>

\* The loop of lines 100-109 without its break: the last candidate that exists
LastFound(l) ==
    IF \E i \in 1..Len(requirements_files) : Exists(l, requirements_files[i])
    THEN CHOOSE i \in 1..Len(requirements_files) :
            /\ Exists(l, requirements_files[i])
            /\ \A j \in (i + 1)..Len(requirements_files) : ~Exists(l, requirements_files[j])
    ELSE 0

\* lines 100-109: the candidate the loop stops at (the break), 0 when none exists
FoundManifest(l) ==
    IF \E i \in 1..Len(requirements_files) : Exists(l, requirements_files[i])
    THEN CHOOSE i \in 1..Len(requirements_files) :
            /\ Exists(l, requirements_files[i])
            /\ \A j \in 1..(i - 1) : ~Exists(l, requirements_files[j])
    ELSE 0

get_dependencies(l, m) ==
    LET found == FoundManifest(l)
        req_file == IF found = 0 THEN "" ELSE requirements_files[found]
    IN  [python |-> IF req_file = "requirements.txt" THEN _parse_requirements_txt(l, m)
                    ELSE IF req_file = "pyproject.toml" THEN _parse_pyproject_toml(l, m)
                    ELSE <<>>,
         node   |-> IF Exists(l, "package.json") THEN _parse_package_json(l, m) ELSE <<>>,
         other  |-> <<>>]

\* The manifests get_dependencies hands to a parser (which opens them), in order
ManifestsOpened(l) ==
    LET found == FoundManifest(l)
        req_file == IF found = 0 THEN "" ELSE requirements_files[found]
    IN  (IF req_file \in {"requirements.txt", "pyproject.toml"}
         THEN <<req_file>> ELSE <<>>)
        \o (IF Exists(l, "package.json") THEN <<"package.json">> ELSE <<>>)

entry_points ==
    <<"main.py", "app.py", "run.py", "server.py", "index.py", "index.js",
      "app.js", "server.js", "main.js", "index.html", "app.html">>

\* The entry points in the order the directory lists them
main_files_as_listed(l) ==
    LET found == SelectSeq(l, LAMBDA path : Len(path) = 1
                                            /\ path[1] \in Range(entry_points))
    IN  [i \in 1..Len(found) |-> found[i][1]]

get_main_files(l) == SelectSeq(entry_points, LAMBDA entry : Exists(l, entry))

-----------------------------------------------------------------------------
(* The section renderers.  Each returns the lines of its section: the text *)
(* "a\n\n" is the two lines "a" and "".  The code fences of the source     *)
(* (three backquotes) are written ~~~.                                     *)

Lower == "abcdefghijklmnopqrstuvwxyz"
Upper == "ABCDEFGHIJKLMNOPQRSTUVWXYZ"

IsLetter(c) == Contains(Lower, c) \/ Contains(Upper, c)
ToUpper(c) ==
    IF Contains(Lower, c)
    THEN Char(Upper, CHOOSE i \in 1..Len(Lower) : Char(Lower, i) = c)
    ELSE c

\* str.replace(old, new) for one-character old
RECURSIVE Replace(_, _, _)
Replace(s, old, new) ==
    IF s = "" THEN ""
    ELSE (IF Char(s, 1) = old THEN new ELSE Char(s, 1))
         \o Replace(SubSeq(s, 2, Len(s)), old, new)

\* str.title() of a lower-case string: a letter after a non-letter is upper-cased
RECURSIVE TitleFrom(_, _)
TitleFrom(s, after_letter) ==
    IF s = "" THEN ""
    ELSE (IF after_letter THEN Char(s, 1) ELSE ToUpper(Char(s, 1)))
         \o TitleFrom(SubSeq(s, 2, Len(s)), IsLetter(Char(s, 1)))

Title(s) == TitleFrom(s, FALSE)

RECURSIVE Prefixed(_, _)
Prefixed(prefix, items) ==
    IF items = <<>> THEN <<>>
    ELSE <<prefix \o items[1]>> \o Prefixed(prefix, Tail(items))

_generate_installation_section(deps, structure) ==
    <<"## Installation", "">>
    \o (IF deps.python # <<>>
        THEN <<"### Python Dependencies", "", "~~~bash">>
             \o (IF \E i \in 1..Len(structure["config_files"]) :
                       EndsWith(structure["config_files"][i], "requirements.txt")
                 THEN <<"pip install -r requirements.txt">>
                 ELSE <<"pip install " \o Join(Take(deps.python, 5), " ")>>)
             \o <<"~~~", "">>
        ELSE <<>>)
    \o (IF deps.node # <<>>
        THEN <<"### Node.js Dependencies", "", "~~~bash", "npm install", "~~~", "">>
        ELSE <<>>)

_generate_usage_section(mains) ==
    <<"## Usage", "">>
    \o (IF mains # <<>>
        THEN <<"To run the project:", "", "~~~bash">>
             \o (IF "main.py" \in Range(mains) THEN <<"python main.py">>
                 ELSE IF "app.py" \in Range(mains) THEN <<"python app.py">>
                 ELSE IF "index.js" \in Range(mains) THEN <<"node index.js">>
                 ELSE <<"python " \o mains[1]>>)
             \o <<"~~~", "">>
        ELSE <<"~~~bash", "# Add usage instructions here", "~~~", "">>)

\* The number of entries a list shows (lines 267, 286, 294)
Limit == 10

\* The entries without sorted()
StructureEntriesUnsorted(files) ==
    Prefixed("  |-- ", Take(files, Limit))
    \o (IF Len(files) > Limit
        THEN <<"  +-- ... and " \o Str(Len(files) - Limit) \o " more files">>
        ELSE <<>>)

\* lines 267-270: the entries of one category and its overflow line (the
\* box-drawing characters of the source are written |-- and +--)
StructureEntries(files) ==
    Prefixed("  |-- ", Take(Sorted(files), Limit))
    \o (IF Len(files) > Limit
        THEN <<"  +-- ... and " \o Str(Len(files) - Limit) \o " more files">>
        ELSE <<>>)

RECURSIVE StructureCategories(_, _)
StructureCategories(structure, categories) ==
    IF categories = <<>> THEN <<>>
    ELSE (IF structure[categories[1]] # <<>>
          THEN <<Title(Replace(categories[1], "_", " ")) \o ":">>
               \o StructureEntries(structure[categories[1]])
               \o <<"">>
          ELSE <<>>)
         \o StructureCategories(structure, Tail(categories))

_generate_structure_section(structure) ==
    <<"## Project Structure", "", "~~~">>
    \o StructureCategories(structure, Categories)
    \o <<"~~~", "">>

\* lines 286-289 and 294-297: the entries of one ecosystem and its overflow line
DependencyEntries(names) ==
    Prefixed("- ", Take(names, Limit))
    \o (IF Len(names) > Limit
        THEN <<"- ... and " \o Str(Len(names) - Limit) \o " more">>
        ELSE <<>>)

\* The section without the early return of lines 279-280
_generate_dependencies_section_always(deps) ==
    <<"## Dependencies", "">>
    \o (IF deps.python # <<>>
        THEN <<"### Python", "">> \o DependencyEntries(deps.python) \o <<"">>
        ELSE <<>>)
    \o (IF deps.node # <<>>
        THEN <<"### Node.js", "">> \o DependencyEntries(deps.node) \o <<"">>
        ELSE <<>>)

_generate_dependencies_section(deps) ==
    IF deps.python = <<>> /\ deps.node = <<>> /\ deps.other = <<>> THEN <<>>
    ELSE <<"## Dependencies", "">>
         \o (IF deps.python # <<>>
             THEN <<"### Python", "">> \o DependencyEntries(deps.python) \o <<"">>
             ELSE <<>>)
         \o (IF deps.node # <<>>
             THEN <<"### Node.js", "">> \o DependencyEntries(deps.node) \o <<"">>
             ELSE <<>>)

\* datetime.now().strftime('%Y-%m-%d %H:%M:%S') at `second` seconds past the hour
Timestamp(second) ==
    "2024-01-01 12:00:" \o (IF second < 10 THEN "0" ELSE "") \o Str(second)

\* (the backquotes of the Contributing lines are written as quotes)
_generate_readme_content(name, structure, deps, mains, now) ==
    <<"# " \o name, "">>
    \o <<"## Description", "",
         "A brief description of what this project does and who it's for.", "">>
    \o <<"## Features", "", "- Feature 1", "- Feature 2", "- Feature 3", "">>
    \o _generate_installation_section(deps, structure)
    \o _generate_usage_section(mains)
    \o _generate_structure_section(structure)
    \o _generate_dependencies_section(deps)
    \o <<"## Contributing", "", "Contributions are always welcome!", "",
         "1. Fork the project",
         "2. Create your feature branch ('git checkout -b feature/AmazingFeature')",
         "3. Commit your changes ('git commit -m Add some AmazingFeature')",
         "4. Push to the branch ('git push origin feature/AmazingFeature')",
         "5. Open a Pull Request", "">>
    \o <<"## License", "",
         "This project is licensed under the MIT License - see the [LICENSE](LICENSE) file for details.",
         "">>
    \o <<"---", "", "*Generated on " \o Timestamp(now) \o "*">>

\* Path.name of the project root
project_name == "proj"

-----------------------------------------------------------------------------
(* The analysis pipeline, one action per call of lines 337-352 *)

NoStructure == [category \in Range(Categories) |-> <<>>]
NoDependencies == [python |-> <<>>, node |-> <<>>, other |-> <<>>]
NoArgs == [force_overwrite |-> FALSE, use_ai_enhancement |-> FALSE, hook |-> "same",
           fault |-> "none", existed |-> FALSE, before |-> <<>>, assembled |-> <<>>,
           raised |-> {}]

GetFileStructure ==
    /\ pc = "structure"
    /\ file_structure' = get_file_structure(listing)
    /\ ops' = Append(ops, "walk")
    /\ pc' = "dependencies"
    /\ UNCHANGED <<listing, manifest, output, clock, dependencies, main_files,
                   readme_content, args, result, calls>>

GetDependencies ==
    /\ pc = "dependencies"
    /\ dependencies' = get_dependencies(listing, manifest)
    /\ ops' = ops \o Prefixed("open ", ManifestsOpened(listing))
    /\ pc' = "main_files"
    /\ UNCHANGED <<listing, manifest, output, clock, file_structure, main_files,
                   readme_content, args, result, calls>>

GetMainFiles ==
    /\ pc = "main_files"
    /\ main_files' = get_main_files(listing)
    /\ pc' = "assemble"
    /\ UNCHANGED <<listing, manifest, output, clock, file_structure, dependencies,
                   readme_content, ops, args, result, calls>>

GenerateReadmeContent ==
    /\ pc = "assemble"
    /\ readme_content' = _generate_readme_content(project_name, file_structure,
                                                  dependencies, main_files, clock)
    /\ pc' = "done"
    /\ UNCHANGED <<listing, manifest, output, clock, file_structure, dependencies,
                   main_files, ops, args, result, calls>>

Analysis == GetFileStructure \/ GetDependencies \/ GetMainFiles \/ GenerateReadmeContent

\* The state in which the analysis of project (l, m) starts
AnalysisOf(l, m) ==
    /\ listing = l
    /\ manifest = m
    /\ output = <<>>
    /\ clock = 0
    /\ pc = "structure"
    /\ file_structure = NoStructure
    /\ dependencies = NoDependencies
    /\ main_files = <<>>
    /\ readme_content = <<>>
    /\ ops = <<>>
    /\ args = NoArgs
    /\ result = "none"
    /\ calls = 0

-----------------------------------------------------------------------------
(* Drawn projects *)

\* The strictly increasing sequences of at most k indices in 1..n
RECURSIVE Increasing(_, _)
Increasing(k, n) ==
    IF k = 0 THEN {<<>>}
    ELSE LET shorter == Increasing(k - 1, n)
         IN  shorter \cup
             UNION {{Append(s, i) : i \in (IF s = <<>> THEN 1 ELSE s[Len(s)] + 1)..n} :
                    s \in {t \in shorter : Len(t) = k - 1}}

Pick(seq, indices) == [i \in 1..Len(indices) |-> seq[indices[i]]]

SampleRequirements ==
    [readable |-> TRUE,
     lines |-> <<"flask==2.0.1", "# comment", "", "  requests >= 2 ", "numpy">>]
SamplePyproject ==
    [valid |-> TRUE, has_project |-> TRUE, has_dependencies |-> TRUE,
     dependencies |-> <<"django>=4", "toml ~= 0.10">>]
SamplePackage ==
    [valid |-> TRUE, has_dependencies |-> TRUE, dependencies |-> <<"react">>,
     has_dev |-> TRUE, devDependencies |-> <<"eslint">>]
SampleManifest ==
    [requirements |-> SampleRequirements, pyproject |-> SamplePyproject,
     package |-> SamplePackage]

\* Directory trees: at most MaxFiles files, each in one of TreeDirs
TreeDirs == << <<>>, <<"src">>, <<"venv">>, <<"src", "venv">>, <<"venv", "src">> >>
TreeNames ==
    <<"main.py", "a.ts", "x.html", "s.css", "c.toml", "notes.md", "LICENSE",
      "b.pyc", ".coverage", "d.pyo">>
TreePaths ==
    [i \in 1..(Len(TreeDirs) * Len(TreeNames)) |->
        Append(TreeDirs[((i - 1) % Len(TreeDirs)) + 1],
               TreeNames[((i - 1) \div Len(TreeDirs)) + 1])]

InitWalk ==
    \E indices \in Increasing(MaxFiles, Len(TreePaths)) :
        AnalysisOf(Pick(TreePaths, indices), SampleManifest)

\* Manifests: any of the five present, with contents that parse or do not
ManifestNames ==
    <<"package.json", "Pipfile", "setup.py", "pyproject.toml", "requirements.txt">>
RequirementsContents ==
    {SampleRequirements, [readable |-> FALSE, lines |-> <<>>]}
PyprojectContents ==
    {SamplePyproject,
     [SamplePyproject EXCEPT !.valid = FALSE],
     [SamplePyproject EXCEPT !.has_project = FALSE],
     [SamplePyproject EXCEPT !.has_dependencies = FALSE]}
PackageContents ==
    {SamplePackage,
     [SamplePackage EXCEPT !.valid = FALSE],
     [SamplePackage EXCEPT !.has_dependencies = FALSE],
     [SamplePackage EXCEPT !.has_dev = FALSE]}

InitDeps ==
    \E indices \in Increasing(Len(ManifestNames), Len(ManifestNames)),
       r \in RequirementsContents, p \in PyprojectContents, k \in PackageContents :
        AnalysisOf([i \in 1..Len(indices) |-> <<ManifestNames[indices[i]]>>],
                   [requirements |-> r, pyproject |-> p, package |-> k])

\* Long lists: n numbered files, requirements or packages
Numbered(prefix, n, suffix) == [i \in 1..n |-> prefix \o Str(i) \o suffix]
NumberedPaths(prefix, n, suffix) == [i \in 1..n |-> <<prefix \o Str(i) \o suffix>>]

InitLists ==
    \E n \in 0..MaxList, few \in 0..1, long \in {"files", "python", "node"},
       python_manifest \in {"requirements.txt", "pyproject.toml"} :
        LET size(list) == IF list = long THEN n ELSE few
            python == Numbered("pkg", size("python"), ">=1.0")
        IN  AnalysisOf(
                NumberedPaths("f", size("files"), ".py")
                    \o <<<<python_manifest>>, <<"package.json">>>>,
                [requirements |-> [readable |-> TRUE, lines |-> python],
                 pyproject |-> [SamplePyproject EXCEPT !.dependencies = python],
                 package |-> [SamplePackage EXCEPT
                                 !.dependencies = Numbered("mod", size("node"), ""),
                                 !.has_dev = FALSE]])

\* Entry points: at most MaxEntries of the candidates under the root
InitEntries ==
    \E indices \in Increasing(MaxEntries, Len(entry_points)), nested \in BOOLEAN :
        AnalysisOf(
            [i \in 1..Len(indices) |-> <<entry_points[Len(entry_points) + 1 - indices[i]]>>]
                \o (IF nested THEN << <<"src", "main.py">> >> ELSE <<>>),
            SampleManifest)

InitRender == InitLists \/ InitEntries

SpecWalk == InitWalk /\ [][Analysis]_vars
SpecDeps == InitDeps /\ [][Analysis]_vars
SpecRender == InitRender /\ [][Analysis]_vars

\* Manifest entries: every string of at most MaxLen of these characters, as the
\* one line of requirements.txt or the one entry of pyproject.toml
EntryChars == {"a", " ", "=", "~", ">", "#"}

RECURSIVE Strings(_)
Strings(n) ==
    IF n = 0 THEN {""}
    ELSE LET shorter == Strings(n - 1)
         IN  shorter \cup {s \o c : s \in shorter, c \in EntryChars}

InitStrip ==
    \E entry \in Strings(MaxLen), python_manifest \in {"requirements.txt", "pyproject.toml"} :
        AnalysisOf(<< <<python_manifest>> >>,
                   [requirements |-> [readable |-> TRUE, lines |-> <<entry>>],
                    pyproject |-> [SamplePyproject EXCEPT !.dependencies = <<entry>>],
                    package |-> SamplePackage])

SpecStrip == InitStrip /\ [][Analysis]_vars

-----------------------------------------------------------------------------
(* generate_readme *)

output_file == "README.md"

\* What the enhancement hook hands back when it returns something that is not text
NotText == <<"<object>">>

\* The hook.  The placeholder returns its input; `hook` is the outcome of the AI
\* service it stands for: "same", "raise" (it raises) or "nontext"
enhance_readme_with_ai(content, hook) ==
    IF hook = "nontext" THEN NotText ELSE content

\* lines 355-363: a hook that raises leaves readme_content as it was
Enhance(content, use_ai_enhancement, hook) ==
    IF use_ai_enhancement /\ hook # "raise"
    THEN enhance_readme_with_ai(content, hook)
    ELSE content

\* The check of line 326 left out
NeverRefused(exists, force_overwrite) == FALSE

\* line 326
OverwriteRefused(exists, force_overwrite) == exists /\ ~force_overwrite

\* The call without the handler of lines 374-380
Propagated == "raised"

\* lines 374-380: what the call ends with when an exception reaches the outer handler
OnException == "False"

\* One call.  Its arguments and what its environment does are drawn here: `hook`
\* is the outcome of the enhancement hook and `fault` names the step that raises,
\* if any: "walk" (analysis), "assemble", "open" (the output cannot be opened) or
\* "write" (it is opened, hence truncated, and writing fails).
generate_readme ==
    /\ pc = "idle"
    /\ calls < MaxCalls
    /\ \E structure \in {get_file_structure(listing)},
          deps \in {get_dependencies(listing, manifest)},
          mains \in {get_main_files(listing)} :
       \E assembled \in {_generate_readme_content(project_name, structure, deps,
                                                  mains, clock)} :
       \E force_overwrite \in BOOLEAN, use_ai_enhancement \in BOOLEAN,
          hook \in {"same", "raise", "nontext"},
          fault \in {"none", "walk", "assemble", "open", "write"} :
       LET final == Enhance(assembled, use_ai_enhancement, hook)
           existed == Exists(listing, output_file)
           refused == OverwriteRefused(existed, force_overwrite)
           analysed == ~refused /\ fault # "walk"
           rendered == analysed /\ fault # "assemble"
           enhancing == rendered /\ use_ai_enhancement
           opened == rendered /\ fault # "open"
           written == opened /\ fault # "write" /\ final # NotText
       IN  /\ ops' = <<"exists">>
                     \o (IF ~refused THEN <<"walk">> ELSE <<>>)
                     \o (IF analysed
                         THEN Prefixed("open ", ManifestsOpened(listing))
                              \o <<"main_files", "assemble">>
                         ELSE <<>>)
                     \o (IF enhancing THEN <<"enhance">> ELSE <<>>)
                     \o (IF rendered THEN <<"open " \o output_file>> ELSE <<>>)
                     \o (IF opened THEN <<"write">> ELSE <<>>)
           /\ result' = IF refused THEN "False"
                        ELSE IF written THEN "True"
                        ELSE OnException
           /\ output' = IF written THEN final
                        ELSE IF opened THEN <<>>
                        ELSE output
           /\ listing' = IF opened /\ ~existed
                         THEN Append(listing, <<output_file>>)
                         ELSE listing
           /\ file_structure' = IF analysed THEN structure ELSE NoStructure
           /\ dependencies' = IF analysed THEN deps ELSE NoDependencies
           /\ main_files' = IF analysed THEN mains ELSE <<>>
           /\ readme_content' = IF rendered THEN final ELSE <<>>
           /\ args' = [force_overwrite |-> force_overwrite,
                       use_ai_enhancement |-> use_ai_enhancement,
                       hook |-> hook,
                       fault |-> fault,
                       existed |-> existed,
                       before |-> output,
                       assembled |-> IF rendered THEN assembled ELSE <<>>,
                       raised |->
                           (IF ~refused /\ fault = "walk" THEN {"analysis"} ELSE {})
                           \cup (IF analysed /\ fault = "assemble"
                                 THEN {"assembly"} ELSE {})
                           \cup (IF enhancing /\ hook = "raise"
                                 THEN {"enhancement"} ELSE {})
                           \cup (IF rendered /\ ~written THEN {"write"} ELSE {})]
    /\ clock' = clock + 1
    /\ calls' = calls + 1
    /\ UNCHANGED <<manifest, pc>>

\* Projects generate_readme is run on: any of these files, the output among them
OldReadme == <<"# proj", "", "Written by hand.">>
ProjectPaths ==
    << <<"README.md">>, <<"main.py">>, <<"requirements.txt">>, <<"src", "util.py">> >>

Init ==
    \E indices \in Increasing(Len(ProjectPaths), Len(ProjectPaths)) :
        LET l == Pick(ProjectPaths, indices)
        IN  /\ listing = l
            /\ manifest = SampleManifest
            /\ output = IF Exists(l, output_file) THEN OldReadme ELSE <<>>
            /\ clock = 0
            /\ pc = "idle"
            /\ file_structure = NoStructure
            /\ dependencies = NoDependencies
            /\ main_files = <<>>
            /\ readme_content = <<>>
            /\ ops = <<>>
            /\ args = NoArgs
            /\ result = "none"
            /\ calls = 0

Next == generate_readme

Spec == Init /\ [][Next]_vars

-----------------------------------------------------------------------------
(* Properties of generate_readme (specification Spec) *)

\* C1: a call that finds the output file present and is not told to overwrite
\* returns False after the existence check alone (no walk, no manifest opened,
\* no hook call, no write), and the output file keeps the content it had.
C1_RefusalLeavesOutputUntouched ==
    (calls > 0 /\ args.existed /\ ~args.force_overwrite) =>
        /\ result = "False"
        /\ ops = <<"exists">>
        /\ output = args.before
        /\ Exists(listing, output_file)

\* C1 witness: a second call without force, refused over the README the first wrote
C1_Witness ==
    /\ calls = 2
    /\ args.existed /\ ~args.force_overwrite
    /\ result = "False"
    /\ output # <<>> /\ output # OldReadme

\* C2 as stated: no exception reaches the caller, every failure raised in
\* analysis, assembly, enhancement or the final write ends the call with False,
\* and True is returned only once the final text is in the output file.
C2_EveryFailureReturnsFalse ==
    calls > 0 =>
        /\ result \in {"True", "False"}
        /\ args.raised # {} => result = "False"
        /\ result = "True" =>
              /\ ops[Len(ops)] = "write"
              /\ output = readme_content
              /\ Exists(listing, output_file)

\* C2 amended: no exception reaches the caller; a failure raised in analysis,
\* assembly or the final write ends the call with False; an exception raised by
\* the enhancement hook is caught and the call carries on with the assembled
\* text; True is returned only once the final text is in the output file.
C2_FailuresButTheHooksReturnFalse ==
    calls > 0 =>
        /\ result \in {"True", "False"}
        /\ args.raised \cap {"analysis", "assembly", "write"} # {} => result = "False"
        /\ args.raised = {"enhancement"} =>
              /\ result = "True"
              /\ readme_content = args.assembled
        /\ result = "True" =>
              /\ ops[Len(ops)] = "write"
              /\ output = readme_content
              /\ readme_content # NotText
              /\ Exists(listing, output_file)

\* C2 witness: the hook raised, nothing else failed, and the call returned True
C2_Witness ==
    /\ calls > 0
    /\ args.raised = {"enhancement"}
    /\ result = "True"
    /\ output = args.assembled

\* C3: with enhancement enabled and a hook that fails (it raises, or returns
\* something that is not text) the assembled text is written and the call
\* returns True; with enhancement disabled the hook is not called.
C3_HookFailureFallsBack ==
    calls > 0 =>
        /\ (/\ "enhance" \in Range(ops)
            /\ args.hook \in {"raise", "nontext"}
            /\ args.fault = "none") =>
              /\ result = "True"
              /\ output = args.assembled
        /\ ~args.use_ai_enhancement => "enhance" \notin Range(ops)

-----------------------------------------------------------------------------
(* Properties of get_dependencies (specification SpecDeps) *)

AtRoot(name) == \E i \in 1..Len(listing) : listing[i] = <<name>>

DependenciesRead == pc \in {"main_files", "assemble", "done"}

\* The names the sample manifests declare
SampleRequirementNames == <<"flask", "requests", "numpy">>
SamplePyprojectNames == <<"django", "toml">>

\* C4: the python names come from the first of requirements.txt, pyproject.toml,
\* setup.py, Pipfile that exists and from no later one: no later candidate is
\* opened, a first candidate of setup.py or Pipfile gives the empty list, and the
\* node names depend on package.json alone.
C4_FirstManifestOnly ==
    DependenciesRead =>
        /\ \A i \in 1..Len(requirements_files) :
              ("open " \o requirements_files[i]) \in Range(ops) =>
                  /\ AtRoot(requirements_files[i])
                  /\ \A j \in 1..(i - 1) : ~AtRoot(requirements_files[j])
                  /\ i <= 2
        /\ dependencies.python =
              (IF AtRoot("requirements.txt")
               THEN (IF manifest.requirements.readable
                     THEN SampleRequirementNames ELSE <<>>)
               ELSE IF AtRoot("pyproject.toml")
               THEN (IF /\ manifest.pyproject.valid
                        /\ manifest.pyproject.has_project
                        /\ manifest.pyproject.has_dependencies
                     THEN SamplePyprojectNames ELSE <<>>)
               ELSE <<>>)
        /\ dependencies.node =
              (IF AtRoot("package.json") /\ manifest.package.valid
               THEN (IF manifest.package.has_dependencies THEN <<"react">> ELSE <<>>)
                    \o (IF manifest.package.has_dev THEN <<"eslint">> ELSE <<>>)
               ELSE <<>>)

\* C4 witness: every manifest is present and parses; requirements.txt is used alone
C4_Witness ==
    /\ pc = "done"
    /\ \A i \in 1..Len(ManifestNames) : AtRoot(ManifestNames[i])
    /\ manifest = SampleManifest
    /\ dependencies.python = SampleRequirementNames
    /\ dependencies.node = <<"react", "eslint">>
    /\ "open pyproject.toml" \notin Range(ops)

-----------------------------------------------------------------------------
(* Properties of get_file_structure (specification SpecWalk) *)

Walked == pc # "structure"

\* The entries of all categories, as <<category, position>> pairs
Entries ==
    {e \in Range(Categories) \X (1..Len(listing)) : e[2] <= Len(file_structure[e[1]])}

EntryText(e) == file_structure[e[1]][e[2]]

\* A file name matches an ignore pattern: a pattern with a leading * matches the
\* names with its ending, any other pattern the name equal to it
MatchesIgnorePattern(file) ==
    \E pattern \in ignore_patterns :
        IF StartsWith(pattern, "*")
        THEN EndsWith(file, SubSeq(pattern, 2, Len(pattern)))
        ELSE file = pattern

BeneathIgnoredDir(path) == \E j \in 1..(Len(path) - 1) : path[j] \in ignore_patterns

\* C5: a file whose name matches an ignore pattern (.pyc, .pyo, .pyd endings,
\* .coverage, .DS_Store, ...) is in no category, whatever directory holds it.
C5_IgnoredFilesInNoCategory ==
    Walked =>
        \A i \in 1..Len(listing) :
            MatchesIgnorePattern(FileName(listing[i])) =>
                \A e \in Entries : EntryText(e) # PathStr(listing[i])

\* C6: no path beneath a directory named in the ignore set, at any depth, is in
\* a category, and every entry point is a name found directly under the root.
C6_PrunedSubtreesNeverVisited ==
    /\ Walked =>
          \A e \in Entries : \A i \in 1..Len(listing) :
              PathStr(listing[i]) = EntryText(e) => ~BeneathIgnoredDir(listing[i])
    /\ pc \in {"assemble", "done"} =>
          \A k \in 1..Len(main_files) :
              \E i \in 1..Len(listing) : listing[i][1] = main_files[k]

\* C6 witness: an entry-point name lies beneath src/venv, another file is
\* classified, and no entry point is detected
C6_Witness ==
    /\ pc = "done"
    /\ \E i \in 1..Len(listing) : listing[i] = <<"src", "venv", "main.py">>
    /\ \E e \in Entries : TRUE
    /\ main_files = <<>>

\* The rules of _categorize_file in priority order; the seventh matches every name
CategoryRules ==
    << {".py"}, {".js", ".ts", ".jsx", ".tsx"}, {".html", ".htm"},
       {".css", ".scss", ".sass"},
       {".json", ".yaml", ".yml", ".toml", ".ini", ".cfg"},
       {".md", ".txt", ".rst"}, {""} >>

FirstMatchingCategory(file) ==
    Categories[CHOOSE r \in 1..Len(CategoryRules) :
                  /\ EndsWithAny(file, CategoryRules[r])
                  /\ \A q \in 1..(r - 1) : ~EndsWithAny(file, CategoryRules[q])]

\* The files the walk keeps: not beneath a pruned directory, not skipped at line 79
Kept(path) == ~BeneathIgnoredDir(path) /\ ~IsIgnoredFile(FileName(path))

OddNames == {"", ".", "py", ".py", "a.PY", "x.json.md", "x.md.json", "a.tsx", "Makefile"}

\* C7: the categories partition the kept files: the path of each kept file is
\* in exactly one category, once, and nothing else is in a category; the category
\* is that of the first matching rule; _categorize_file answers for any name.
C7_CategoriesPartitionFiles ==
    /\ Walked =>
          /\ \A i \in 1..Len(listing) :
                Kept(listing[i]) =>
                    \E e \in Entries :
                        /\ EntryText(e) = PathStr(listing[i])
                        /\ e[1] = FirstMatchingCategory(FileName(listing[i]))
                        /\ \A f \in Entries : EntryText(f) = EntryText(e) => f = e
          /\ \A e \in Entries :
                \E i \in 1..Len(listing) :
                    Kept(listing[i]) /\ PathStr(listing[i]) = EntryText(e)
    /\ \A file \in OddNames :
          _categorize_file(file) = FirstMatchingCategory(file)

\* C7 witness: two kept files in two categories, one of them the catch-all
C7_Witness ==
    /\ pc = "done"
    /\ Len(file_structure["other_files"]) = 1
    /\ Len(file_structure["config_files"]) = 1

-----------------------------------------------------------------------------
(* Properties of the assembled document (specification SpecRender) *)

Assembled == pc = "done"

\* The position of the first line equal to `line` (0 when there is none)
LineOf(line) ==
    IF line \in Range(readme_content)
    THEN CHOOSE i \in 1..Len(readme_content) :
            /\ readme_content[i] = line
            /\ \A j \in 1..(i - 1) : readme_content[j] # line
    ELSE 0

Occurrences(line) == Cardinality({i \in 1..Len(readme_content) : readme_content[i] = line})

\* The lines that open a section: the title, the ## headings and the footer rule
SectionMarks ==
    SelectSeq(readme_content,
              LAMBDA line : \/ line = "# " \o project_name
                            \/ StartsWith(line, "## ")
                            \/ line = "---")

\* C8: the sections come in the order Title, Description, Features, Installation,
\* Usage, Structure, Dependencies, Contributing, License, Footer, each at most
\* once; all but Dependencies are always there, and Dependencies is there exactly
\* when some ecosystem has a dependency.
C8_SectionOrder ==
    Assembled =>
        /\ readme_content[1] = "# " \o project_name
        /\ SectionMarks =
              <<"# " \o project_name, "## Description", "## Features",
                "## Installation", "## Usage", "## Project Structure">>
              \o (IF dependencies.python # <<>> \/ dependencies.node # <<>>
                  THEN <<"## Dependencies">> ELSE <<>>)
              \o <<"## Contributing", "## License", "---">>
        /\ StartsWith(readme_content[Len(readme_content)], "*Generated on ")

\* C8 witness: only the node ecosystem has dependencies and the section is there
C8_Witness ==
    /\ Assembled
    /\ dependencies.python = <<>>
    /\ dependencies.node # <<>>
    /\ Occurrences("## Dependencies") = 1

EntryPointsRead == pc \in {"assemble", "done"}

\* The run command the Usage section should show for the names under the root
ExpectedCommand ==
    IF AtRoot("main.py") THEN "python main.py"
    ELSE IF AtRoot("app.py") THEN "python app.py"
    ELSE IF AtRoot("index.js") THEN "node index.js"
    ELSE "python " \o entry_points[CHOOSE i \in 1..Len(entry_points) :
                                      /\ AtRoot(entry_points[i])
                                      /\ \A j \in 1..(i - 1) : ~AtRoot(entry_points[j])]

UsageSection ==
    SubSeq(readme_content, LineOf("## Usage"), LineOf("## Project Structure") - 1)

\* C9: the entry points are the candidates found directly under the root, in
\* candidate order; Usage shows the command for main.py, else app.py, else
\* index.js, else a python run of the first entry point, and the placeholder
\* when there is no entry point.
C9_EntryPointsAndUsage ==
    /\ EntryPointsRead =>
          /\ \A i \in 1..Len(entry_points) :
                entry_points[i] \in Range(main_files) <=> AtRoot(entry_points[i])
          /\ \A a, b \in 1..Len(main_files) :
                a < b => \E i, j \in 1..Len(entry_points) :
                            /\ i < j
                            /\ entry_points[i] = main_files[a]
                            /\ entry_points[j] = main_files[b]
    /\ Assembled =>
          UsageSection =
              IF \E i \in 1..Len(entry_points) : AtRoot(entry_points[i])
              THEN <<"## Usage", "", "To run the project:", "", "~~~bash",
                     ExpectedCommand, "~~~", "">>
              ELSE <<"## Usage", "", "~~~bash", "# Add usage instructions here",
                     "~~~", "">>

\* C9 witness: run.py and index.js are found, in that order, and index.js is run
C9_Witness ==
    /\ Assembled
    /\ main_files = <<"run.py", "index.js">>
    /\ "node index.js" \in Range(readme_content)

CategoryHeadings ==
    [python_files |-> "Python Files:", javascript_files |-> "Javascript Files:",
     html_files |-> "Html Files:", css_files |-> "Css Files:",
     config_files |-> "Config Files:", documentation |-> "Documentation:",
     other_files |-> "Other Files:"]

Min(a, b) == IF a < b THEN a ELSE b

\* The list rendered below line `at`: `shown` entry lines, then the overflow line
\* exactly when n exceeds ten, then a blank line
RenderedList(at, n, entry(_), overflow) ==
    /\ at > 0
    /\ \A k \in 1..Min(n, 10) : readme_content[at + k] = entry(k)
    /\ IF n > 10
       THEN /\ readme_content[at + 11] = overflow
            /\ readme_content[at + 12] = ""
       ELSE readme_content[at + n + 1] = ""

\* The k-th of `files`, which hold no duplicates, in lexicographic order
Ranked(files, k) ==
    CHOOSE f \in Range(files) :
        Cardinality({g \in Range(files) : StrLess(g, f)}) = k - 1

\* C10: a category of n files shows its first min(n, 10) paths in lexicographic
\* order and an ecosystem of n names its first min(n, 10) names in declared
\* order; the overflow line is there exactly when n > 10 and states n - 10.
C10_ListsAreCutAtTen ==
    Assembled =>
        /\ \A c \in Range(Categories) :
              LET files == file_structure[c]
                  n == Len(files)
              IN  n > 0 =>
                    /\ Occurrences(CategoryHeadings[c]) = 1
                    /\ RenderedList(LineOf(CategoryHeadings[c]), n,
                                    LAMBDA k : "  |-- " \o Ranked(files, k),
                                    "  +-- ... and " \o Str(n - 10) \o " more files")
                    /\ n = 15 =>
                          "  +-- ... and 5 more files" \in Range(readme_content)
        /\ \A eco \in {"python", "node"} :
              LET names == dependencies[eco]
                  n == Len(names)
                  heading == IF eco = "python" THEN "### Python" ELSE "### Node.js"
              IN  n > 0 =>
                    /\ Occurrences(heading) = 1
                    /\ RenderedList(LineOf(heading) + 1, n,
                                    LAMBDA k : "- " \o names[k],
                                    "- ... and " \o Str(n - 10) \o " more")
                    /\ n = 15 => Occurrences("- ... and 5 more") = 1
        /\ Cardinality({i \in 1..Len(readme_content) :
                           \/ StartsWith(readme_content[i], "  +-- ... and ")
                           \/ StartsWith(readme_content[i], "- ... and ")})
              = Cardinality({c \in Range(Categories) : Len(file_structure[c]) > 10})
                + Cardinality({eco \in {"python", "node"} : Len(dependencies[eco]) > 10})

\* C10 witness: fifteen python files, ten shown (f10.py before f2.py), five more
C10_Witness ==
    /\ Assembled
    /\ Len(file_structure["python_files"]) = 15
    /\ readme_content[LineOf("Python Files:") + 2] = "  |-- f10.py"
    /\ "  +-- ... and 5 more files" \in Range(readme_content)

-----------------------------------------------------------------------------
(* Properties of the package names (specification SpecStrip) *)

OperatorChars == {"<", ">", "=", "!", "~"}

\* C11: every name get_dependencies extracts from a requirements.txt line or a
\* pyproject.toml entry holds none of the characters < > = ! ~, has no white
\* space at either end, and extracting the name of that name gives it back.
C11_ExtractionIsIdempotent ==
    DependenciesRead =>
        \A k \in 1..Len(dependencies.python) :
            LET name == dependencies.python[k]
            IN  /\ \A i \in 1..Len(name) : Char(name, i) \notin OperatorChars
                /\ name # "" => Char(name, 1) # " " /\ Char(name, Len(name)) # " "
                /\ PackageName(name) = name

\* C11 witness: the requirement " a>=" gives the name "a"
C11_Witness ==
    /\ pc = "done"
    /\ AtRoot("requirements.txt")
    /\ manifest.requirements.lines = <<" a>=">>
    /\ dependencies.python = <<"a">>

\* A requirements.txt is among the files get_file_structure walked and classified
RequirementsClassified ==
    \E e \in Entries :
        \/ EntryText(e) = "requirements.txt"
        \/ EndsWith(EntryText(e), "/requirements.txt")

\* The lines generate_readme assembled contain `line`
Emitted(line) == line \in Range(args.assembled)

\* C12: when generate_readme assembles a README for a project with python
\* dependencies, the Installation section holds `pip install -r requirements.txt`
\* if a requirements.txt was walked and classified, and otherwise `pip install`
\* with the first five names; with node dependencies it holds `npm install`.
C12_InstallCommand ==
    (calls > 0 /\ args.assembled # <<>>) =>
        /\ dependencies.python # <<>> =>
               IF RequirementsClassified
               THEN Emitted("pip install -r requirements.txt")
               ELSE Emitted("pip install " \o Join(Take(dependencies.python, 5), " "))
        /\ dependencies.node # <<>> => Emitted("npm install")

=============================================================================
